---- MODULE Spec2Model ----
(***************************************************************************)
(* Model of code/PaytmLabs_challenge.py: the web log sessionization        *)
(* pipeline of __main__ and the functions it maps over the per-customer    *)
(* data (getPageDurations, getSessionsURLHits, getSessions,                *)
(* getSessionWindowStats, getOptimalSessionWindow).                        *)
(*                                                                         *)
(* Time.  A timestamp is a number of seconds.  The code stores a duration  *)
(* as td.total_seconds() / 60.0 minutes; the model stores the number of    *)
(* seconds td and reads it as td / 60 minutes, so a duration d is compared *)
(* with a window of W minutes as d < W * SecsPerMin.                       *)
(*                                                                         *)
(* Percentages.  The code computes (x[j] * 100.0) / x[6]; the model keeps  *)
(* the exact quotient as the pair <<x[j] * 100, x[6]>> and compares two    *)
(* quotients by cross multiplication (the denominators are positive).      *)
(***************************************************************************)
EXTENDS Integers, Sequences, FiniteSets, Bags, TLC

\* ------------------------------------------------------------------ bounds

\* at most this many parsed log lines (events) in one run, over all customers
MaxEvents == 3

\* the longest percentage series handed to the window heuristic on its own
MaxLen == 5

\* the entries of such a series: <<sessions with one url, sessions>>
Shares == {<<0, 1>>, <<1, 3>>, <<1, 2>>, <<2, 4>>, <<1, 1>>}

\* customer IPs, URLs, timestamps (seconds) and --session_period values
ClientList == <<"ip1", "ip2", "ip3">>

URLs == {"A", "B"}

Instants == {0, 30, 90}

Periods == {0, 1}

\* ------------------------------------------------------- program constants

SESSION_WINDOW_MAX == 40

SecsPerMin == 60

num_cohorts == 2

page_nums == 6

\* the option of line 470
FlagCalculate == "--bCalculate_session_window"

\* ------------------------------------------------------------------- state

VARIABLES
    pc,                  \* the statement of __main__ reached
    session_period,      \* args.session_period
    d3,                  \* d3_agg_date_url_RDD: cid -> list of [dt, url]
    d4,                  \* d4_sort_agg_date_url_RDD
    d5,                  \* d5_cust_duration_RDD: cid -> [lurls, lts, ldurs]
    d6,                  \* d6_url_session_RDD: cid -> list of 7-entry tallies
    parts,               \* partial results of the reduce still to be merged
    lsess_window_stats,  \* the reduced tallies, one per window
    lpg_sess_stats,      \* j -> percentage of sessions with j+1 urls, per window
    lind,                \* result of getOptimalSessionWindow
    session_window,      \* the window the data is sessionized with
    d7,                  \* d7_sessionized_RDD: cid -> list of sessions
    argv,                \* the options given on the command line
    d8,                  \* d8_session_duration_RDD: cid -> list of durations
    SUM_SESSION_TIME_ACC,   \* accumulator of line 498
    TOTAL_SESSIONS_ACC,     \* accumulator of line 499
    sum_session_time,    \* value of the accumulator read at line 556
    total_num_sessions,  \* value of the accumulator read at line 557
    d8b,                 \* d8b_page_hits_RDD: cid -> list of url counts
    d9,                  \* d9_total_cust_session_RDD: cid -> total duration
    d14                  \* d14_total_engagement_RDD: cid -> 5 statistics

\* what the statements after the sessionization write
metrics == <<d8, SUM_SESSION_TIME_ACC, TOTAL_SESSIONS_ACC, sum_session_time,
             total_num_sessions, d8b, d9, d14>>

vars == <<pc, session_period, d3, d4, d5, d6, parts, lsess_window_stats,
          lpg_sess_stats, lind, session_window, d7, argv, metrics>>

\* action='store_true' (line 470): True when the option is given, else the
\* default
StoreTrue(present, default) == IF present THEN TRUE ELSE default

\* args.bCalculate_session_window, declared with default=True
bCalculate_session_window == StoreTrue(FlagCalculate \in argv, TRUE)

\* before line 552 nothing of the metrics is computed; the accumulators
\* start at 0 (lines 498-499)
NoMetrics ==
    /\ d8 = <<>>
    /\ SUM_SESSION_TIME_ACC = 0
    /\ TOTAL_SESSIONS_ACC = 0
    /\ sum_session_time = 0
    /\ total_num_sessions = 0
    /\ d8b = <<>>
    /\ d9 = <<>>
    /\ d14 = <<>>

\* ----------------------------------------------------------------- helpers

Min(a, b) == IF a < b THEN a ELSE b

\* len(set(s))
LenSet(s) == Cardinality({s[i] : i \in DOMAIN s})

\* a Python list index i into a list of n elements, as a position 1..n
PyIndex(i, n) == IF i < 0 THEN i + n + 1 ELSE i + 1

\* a timestamp as the code stores it in lts: the datetime itself, or the
\* one-element list [datetime] (boxed)
Stamp(dt, boxed) == [dt |-> dt, boxed |-> boxed]

\* ------------------------------------------------- sort by date (line 510)

\* sorted(dat, key=lambda x: x[0]): Python's sort is stable, so an element
\* goes behind every element whose key is not greater
sorted_asGiven(dat) == dat

RECURSIVE sorted(_)
sorted(dat) ==
    IF dat = <<>> THEN <<>>
    ELSE LET n    == Len(dat)
             rest == sorted(SubSeq(dat, 1, n - 1))
             e    == dat[n]
             k    == Cardinality({i \in DOMAIN rest : rest[i][1] <= e[1]})
         IN  SubSeq(rest, 1, k) \o <<e>> \o SubSeq(rest, k + 1, Len(rest))

\* -------------------------------------------------------- getPageDurations

\* lin = (cid, list of [dt, url]); the result is (cid, [lurls, lts, ldurs])
getPageDurations(lin) ==
    LET cid   == lin[1]
        dat   == lin[2]
        n     == Len(dat)
        ldurs == [k \in 1..n |-> IF k = 1 THEN 0 ELSE dat[k][1] - dat[k - 1][1]]
        lts   == [k \in 1..n |-> IF k = 1 THEN Stamp(dat[1][1], FALSE)
                                          ELSE Stamp(dat[k][1], TRUE)]
        lurls == [k \in 1..n |-> dat[k][2]]
    IN  <<cid, <<lurls, lts, ldurs>>>>

\* ------------------------------------------------------ getSessionsURLHits

\* line 192: lperiods = range(1, SESSION_WINDOW_MAX_BC.value)
lperiods == [k \in 1..(SESSION_WINDOW_MAX - 1) |-> k]

HitsInSession_inclusive(dur, period) == dur <= period * SecsPerMin

\* line 200: if dur < period
HitsInSession(dur, period) == dur < period * SecsPerMin

\* lines 194-212: the unique url counts of the sessions cut at one period
RECURSIVE HitsLoop(_, _, _, _, _, _)
HitsLoop(urls, durs, i, period, lsess_urls, lsession_hits) ==
    IF i > Min(Len(urls), Len(durs))
    THEN Append(lsession_hits, LenSet(lsess_urls))
    ELSE IF HitsInSession(durs[i], period)
         THEN HitsLoop(urls, durs, i + 1, period,
                       Append(lsess_urls, urls[i]), lsession_hits)
         ELSE HitsLoop(urls, durs, i + 1, period,
                       <<urls[i]>>, Append(lsession_hits, LenSet(lsess_urls)))

\* lines 221-224: the slot (1..7) a session with spages unique urls adds to
HitSlot(spages) ==
    IF spages <= 5 THEN PyIndex(spages - 1, 7) ELSE PyIndex(5, 7)

\* len(set(lsession_hits)) for len(lsession_hits)
PageHits_totalOfHits(lsession_hits) ==
    [j \in 1..7 |->
        (IF j = 7 THEN LenSet(lsession_hits) ELSE 0)
        + Cardinality({k \in DOMAIN lsession_hits : HitSlot(lsession_hits[k]) = j})]

\* lines 218-224: the 7-entry tally of one period
PageHits(lsession_hits) ==
    [j \in 1..7 |->
        (IF j = 7 THEN Len(lsession_hits) ELSE 0)
        + Cardinality({k \in DOMAIN lsession_hits : HitSlot(lsession_hits[k]) = j})]

getSessionsURLHits(lin) ==
    LET cid == lin[1]
        dat == lin[2]
    IN  <<cid, [p \in DOMAIN lperiods |->
                  PageHits(HitsLoop(dat[1], dat[3], 1, lperiods[p], <<>>, <<>>))]>>

\* -------------------------------------------------------------- getSessions

InSession_inclusive(dur, W) == dur <= W * SecsPerMin

InSession_seconds(dur, W) == dur < W

\* line 252: if dur < SESSION_WINDOW_BC.value
InSession(dur, W) == dur < W * SecsPerMin

Restart_empty(url, ts) == <<<<>>, <<>>, <<>>>>

\* line 262: lsess_durs, lsess_urls, lsess_ts = [0], [url], [ts]
Restart(url, ts) == <<<<0>>, <<url>>, <<ts>>>>

\* lines 248-264: a session is [lsess_durs, lsess_urls, lsess_ts]
RECURSIVE SessLoop(_, _, _, _, _, _, _, _)
SessLoop(cid, dat, i, W, lsessions, lsess_durs, lsess_urls, lsess_ts) ==
    IF i > Min(Len(dat[1]), Min(Len(dat[2]), Len(dat[3])))
    THEN Append(lsessions, <<cid, <<lsess_durs, lsess_urls, lsess_ts>>>>)
    ELSE LET url == dat[1][i]
             ts  == dat[2][i]
             dur == dat[3][i]
         IN  IF InSession(dur, W)
             THEN SessLoop(cid, dat, i + 1, W, lsessions,
                           Append(lsess_durs, dur), Append(lsess_urls, url),
                           Append(lsess_ts, ts))
             ELSE SessLoop(cid, dat, i + 1, W,
                           Append(lsessions,
                                  <<cid, <<lsess_durs, lsess_urls, lsess_ts>>>>),
                           Restart(url, ts)[1], Restart(url, ts)[2],
                           Restart(url, ts)[3])

\* W is SESSION_WINDOW_BC.value, the broadcast of session_window (line 539)
getSessions(lin, W) ==
    SessLoop(lin[1], lin[2], 1, W, <<>>, <<>>, <<>>, <<>>)

\* ------------------------------------------------- histogram reduce (l. 526)

\* zip(x, x) for zip(x, y)
MergeStats_leftTwice(a, b) ==
    [w \in 1..Min(Len(a), Len(b)) |->
        [j \in 1..Min(Len(a[w]), Len(b[w])) |-> a[w][j] + a[w][j]]]

\* lambda a, b: [map(sum, zip(x, y)) for x, y in zip(a, b)]
MergeStats(a, b) ==
    [w \in 1..Min(Len(a), Len(b)) |->
        [j \in 1..Min(Len(a[w]), Len(b[w])) |-> a[w][j] + b[w][j]]]

\* ---------------------------------------------------- getSessionWindowStats

\* the percentage (x[j] * 100.0) / x[6], kept as numerator and denominator;
\* x[6], the number of sessions of a window, is at least 1 for every list of
\* tallies the model builds
getSessionWindowStats(stats) ==
    [j \in 0..(page_nums - 1) |->
        [w \in DOMAIN stats |-> <<stats[w][j + 1] * 100, stats[w][7]>>]]

\* -------------------------------------------------- getOptimalSessionWindow

PctGreater_orEqual(a, b) == a[1] * b[2] >= b[1] * a[2]

\* line 336: lpg_sess_stats[pg_vw][k + 1] > lpg_sess_stats[pg_vw][k]
PctGreater(a, b) == a[1] * b[2] > b[1] * a[2]

\* lines 335-342: k is the 0-based index of the code
RECURSIVE OptLoop(_, _, _, _)
OptLoop(series, k, found, num_ind) ==
    IF k > Len(series) - 2 THEN found
    ELSE IF PctGreater(series[k + 2], series[k + 1])
         THEN IF num_ind + 1 >= num_cohorts
              THEN Append(found, k)
              ELSE OptLoop(series, k + 1, Append(found, k), num_ind + 1)
         ELSE OptLoop(series, k + 1, found, num_ind)

\* pg_vw = 0: the series of sessions with one url hit
getOptimalSessionWindow(stats) == OptLoop(stats[0], 0, <<>>, 0)

\* ----------------------------------------------------------- getSessionTime

\* Python's sum of a list
RECURSIVE sum(_)
sum(l) == IF l = <<>> THEN 0 ELSE Head(l) + sum(Tail(l))

\* lin = (cid, [lsess_durs, lsess_urls, lsess_ts]); the result is (cid, dur).
\* The two accumulator updates of lines 284-285 are made by the actions that
\* evaluate the function.
getSessionTime(lin) == <<lin[1], sum(lin[2][1])>>

\* what lines 284-285 add to the accumulators when getSessionTime is
\* evaluated on every session of the sessionized data
AccumulatedTime(sessions) ==
    sum([i \in 1..Len(ClientList) |->
           IF ClientList[i] \in DOMAIN sessions
           THEN sum([k \in DOMAIN sessions[ClientList[i]] |->
                       getSessionTime(sessions[ClientList[i]][k])[2]])
           ELSE 0])

AccumulatedSessions(sessions) ==
    sum([i \in 1..Len(ClientList) |->
           IF ClientList[i] \in DOMAIN sessions
           THEN Len(sessions[ClientList[i]])
           ELSE 0])

\* line 566: lambda (cid, dat): (cid, len(set(dat[1])))
PageHitsOfSession(lin) == <<lin[1], LenSet(lin[2][2])>>

\* line 575: lambda a, b: a + b
AddDur_keepLeft(a, b) == a

AddDur(a, b) == a + b

\* line 575: reduceByKey on the durations l of one customer, who is never
\* without a session
RECURSIVE ReduceDur(_)
ReduceDur(l) ==
    IF Len(l) = 1 THEN l[1]
    ELSE AddDur(ReduceDur(SubSeq(l, 1, Len(l) - 1)), l[Len(l)])

\* line 595: lambda a, b: [a[0] + b[0], a[1] + b[1]]
AddPageSessions(a, b) == <<a[1] + b[1], a[2] + b[2]>>

\* line 595: reduceByKey on the pairs l of one customer
RECURSIVE ReducePageSessions(_)
ReducePageSessions(l) ==
    IF Len(l) = 1 THEN l[1]
    ELSE AddPageSessions(ReducePageSessions(SubSeq(l, 1, Len(l) - 1)),
                         l[Len(l)])

\* lines 599-600: dat = (d12 value, d10 value); the two quotients are kept
\* as pairs <<numerator, denominator>>
EngagementStats(dat) ==
    <<dat[1][1], dat[2], <<dat[1][1], dat[1][2]>>, <<dat[2], dat[1][2]>>,
      dat[1][2]>>

\* line 552: d7_sessionized_RDD.map(getSessionTime)
SessionDurationRDD(sessions) ==
    [cid \in DOMAIN sessions |->
       [k \in DOMAIN sessions[cid] |-> getSessionTime(sessions[cid][k])]]

\* line 566: d7_sessionized_RDD.map(lambda (cid, dat): ...)
PageHitsRDD(sessions) ==
    [cid \in DOMAIN sessions |->
       [k \in DOMAIN sessions[cid] |-> PageHitsOfSession(sessions[cid][k])]]

\* line 575: d8_session_duration_RDD.reduceByKey(lambda a, b: a + b)
TotalCustSessionRDD(durations) ==
    [cid \in DOMAIN durations |->
       ReduceDur([k \in DOMAIN durations[cid] |-> durations[cid][k][2]])]

\* lines 594-600: d11 pairs every count with 1, d12 adds the pairs of a
\* customer up, d13 joins them with the customer's total duration
TotalEngagementRDD(hits, totals) ==
    LET d12 == [cid \in DOMAIN hits |->
                  ReducePageSessions([k \in DOMAIN hits[cid] |->
                                        <<hits[cid][k][2], 1>>])]
        d13 == [cid \in DOMAIN d12 \cap DOMAIN totals |->
                  <<d12[cid], totals[cid]>>]
    IN  [cid \in DOMAIN d13 |-> EngagementStats(d13[cid])]

\* --------------------------------------------------------------- the inputs

Event == Instants \X URLs

\* the aggregated lines of the customers that have any: at most budget
\* lines in all, each list in any order (reduceByKey concatenates in any
\* order).  Customers are interchangeable, so the i-th customer has lines
\* only if the one before has, and no more lines than that one (cap).
RECURSIVE Aggregates(_, _, _)
Aggregates(i, budget, cap) ==
    IF i > Len(ClientList) THEN {<<>>}
    ELSE {<<>>} \cup
         UNION {{f @@ (ClientList[i] :> dat) :
                   f \in Aggregates(i + 1, budget - n, n),
                   dat \in [1..n -> Event]}
                : n \in 1..Min(budget, cap)}

\* the bag of the values of a function
RECURSIVE Values(_, _)
Values(f, cs) ==
    IF cs = {} THEN EmptyBag
    ELSE LET c == CHOOSE x \in cs : TRUE
         IN  SetToBag({f[c]}) (+) Values(f, cs \ {c})

\* one customer with the urls A, B, C at minutes 0, 5 and 25
TimelineScenario == "ip1" :> <<<<0, "A">>, <<300, "B">>, <<1500, "C">>>>

\* one customer who comes back after a minute and a half and stays for
\* half a minute
ReturnScenario == "ip1" :> <<<<0, "A">>, <<90, "B">>, <<120, "A">>>>

\* the runs: a session_period and the aggregated lines of the log.  Every
\* period of Periods with every log of at most MaxEvents lines and with the
\* returning customer, and the timeline of minutes with the period 15
Runs ==
    (Periods \X ((Aggregates(1, MaxEvents, MaxEvents) \ {<<>>})
                    \cup {ReturnScenario}))
        \cup {<<15, TimelineScenario>>}

\* line 535: the window of the time index k
WindowOfIndex_next(k) == k + 2

WindowOfIndex(k) == k + 1

\* ------------------------------------------------------------------ __main__

Init ==
    /\ pc = "d3"
    /\ \E run \in Runs :
         /\ session_period = run[1]
         /\ d3 = run[2]
    /\ d4 = <<>>
    /\ d5 = <<>>
    /\ d6 = <<>>
    /\ parts = EmptyBag
    /\ lsess_window_stats = <<>>
    /\ lpg_sess_stats = <<>>
    /\ lind = <<>>
    /\ session_window = session_period
    /\ d7 = <<>>
    /\ argv = {}
    /\ NoMetrics

\* line 510
SortByDate ==
    /\ pc = "d3"
    /\ d4' = [cid \in DOMAIN d3 |-> sorted(d3[cid])]
    /\ pc' = "d4"
    /\ UNCHANGED <<session_period, d3, d5, d6, parts, lsess_window_stats,
                   lpg_sess_stats, lind, session_window, d7>>
    /\ UNCHANGED <<argv, metrics>>

\* line 512
PageDurations ==
    /\ pc = "d4"
    /\ d5' = [cid \in DOMAIN d4 |-> getPageDurations(<<cid, d4[cid]>>)[2]]
    /\ pc' = "d5"
    /\ UNCHANGED <<session_period, d3, d4, d6, parts, lsess_window_stats,
                   lpg_sess_stats, lind, session_window, d7>>
    /\ UNCHANGED <<argv, metrics>>

\* lines 519-522, and the start of the reduce of line 526
SessionsURLHits ==
    /\ pc = "d5"
    /\ bCalculate_session_window
    /\ d6' = [cid \in DOMAIN d5 |-> getSessionsURLHits(<<cid, d5[cid]>>)[2]]
    /\ parts' = Values(d6', DOMAIN d5)
    /\ pc' = "d6"
    /\ UNCHANGED <<session_period, d3, d4, d5, lsess_window_stats,
                   lpg_sess_stats, lind, session_window, d7>>
    /\ UNCHANGED <<argv, metrics>>

\* line 526: reduce merges any two partial results, in either order
Merge ==
    /\ pc = "d6"
    /\ \E a \in BagToSet(parts), b \in BagToSet(parts) :
         /\ a # b \/ CopiesIn(a, parts) >= 2
         /\ parts' = ((parts (-) SetToBag({a})) (-) SetToBag({b}))
                       (+) SetToBag({MergeStats(a, b)})
    /\ UNCHANGED <<pc, session_period, d3, d4, d5, d6, lsess_window_stats,
                   lpg_sess_stats, lind, session_window, d7>>
    /\ UNCHANGED <<argv, metrics>>

\* line 526: the reduce returns when one result is left
ReduceDone ==
    /\ pc = "d6"
    /\ BagCardinality(parts) = 1
    /\ lsess_window_stats' = (CHOOSE a \in BagToSet(parts) : TRUE)
    /\ parts' = EmptyBag
    /\ pc' = "reduced"
    /\ UNCHANGED <<session_period, d3, d4, d5, d6, lpg_sess_stats, lind,
                   session_window, d7>>
    /\ UNCHANGED <<argv, metrics>>

\* line 529
SessionWindowStats ==
    /\ pc = "reduced"
    /\ lpg_sess_stats' = getSessionWindowStats(lsess_window_stats)
    /\ pc' = "stats"
    /\ UNCHANGED <<session_period, d3, d4, d5, d6, parts, lsess_window_stats,
                   lind, session_window, d7>>
    /\ UNCHANGED <<argv, metrics>>

\* lines 533-536
OptimalSessionWindow ==
    /\ pc = "stats"
    /\ lind' = getOptimalSessionWindow(lpg_sess_stats)
    /\ session_window' = IF Len(lind') > 0 THEN WindowOfIndex(lind'[1])
                                           ELSE session_window
    /\ pc' = "window"
    /\ UNCHANGED <<session_period, d3, d4, d5, d6, parts, lsess_window_stats,
                   lpg_sess_stats, d7>>
    /\ UNCHANGED <<argv, metrics>>

\* lines 539-543
Sessionize ==
    /\ pc = "window" \/ (pc = "d5" /\ ~bCalculate_session_window)
    /\ d7' = [cid \in DOMAIN d5 |-> getSessions(<<cid, d5[cid]>>, session_window)]
    /\ pc' = "d7"
    /\ UNCHANGED <<session_period, d3, d4, d5, d6, parts, lsess_window_stats,
                   lpg_sess_stats, lind, session_window>>
    /\ UNCHANGED <<argv, metrics>>

\* lines 552-557: the collect evaluates getSessionTime on every session,
\* then the accumulators are read
SessionTime ==
    /\ pc = "d7"
    /\ d8' = SessionDurationRDD(d7)
    /\ SUM_SESSION_TIME_ACC' = SUM_SESSION_TIME_ACC + AccumulatedTime(d7)
    /\ TOTAL_SESSIONS_ACC' = TOTAL_SESSIONS_ACC + AccumulatedSessions(d7)
    /\ sum_session_time' = SUM_SESSION_TIME_ACC'
    /\ total_num_sessions' = TOTAL_SESSIONS_ACC'
    /\ pc' = "d8"
    /\ UNCHANGED <<session_period, d3, d4, d5, d6, parts, lsess_window_stats,
                   lpg_sess_stats, lind, session_window, d7, argv>>
    /\ UNCHANGED <<d8b, d9, d14>>

\* lines 566-569
PageHitsPerSession ==
    /\ pc = "d8"
    /\ d8b' = PageHitsRDD(d7)
    /\ pc' = "d8b"
    /\ UNCHANGED <<session_period, d3, d4, d5, d6, parts, lsess_window_stats,
                   lpg_sess_stats, lind, session_window, d7, argv>>
    /\ UNCHANGED <<d8, SUM_SESSION_TIME_ACC, TOTAL_SESSIONS_ACC,
                   sum_session_time, total_num_sessions, d9, d14>>

\* lines 575-578: d8_session_duration_RDD is not persisted, so the job of
\* the reduceByKey evaluates map(getSessionTime) on the persisted d7 again,
\* and with it the accumulator updates
TotalCustSession ==
    /\ pc = "d8b"
    /\ d9' = TotalCustSessionRDD(SessionDurationRDD(d7))
    /\ SUM_SESSION_TIME_ACC' = SUM_SESSION_TIME_ACC + AccumulatedTime(d7)
    /\ TOTAL_SESSIONS_ACC' = TOTAL_SESSIONS_ACC + AccumulatedSessions(d7)
    /\ pc' = "d10"
    /\ UNCHANGED <<session_period, d3, d4, d5, d6, parts, lsess_window_stats,
                   lpg_sess_stats, lind, session_window, d7, argv>>
    /\ UNCHANGED <<d8, sum_session_time, total_num_sessions, d8b, d14>>

\* lines 594-601
TotalEngagement ==
    /\ pc = "d10"
    /\ d14' = TotalEngagementRDD(d8b, d9)
    /\ pc' = "d14"
    /\ UNCHANGED <<session_period, d3, d4, d5, d6, parts, lsess_window_stats,
                   lpg_sess_stats, lind, session_window, d7, argv>>
    /\ UNCHANGED <<d8, SUM_SESSION_TIME_ACC, TOTAL_SESSIONS_ACC,
                   sum_session_time, total_num_sessions, d8b, d9>>

Next ==
    \/ SortByDate
    \/ PageDurations
    \/ SessionsURLHits
    \/ Merge
    \/ ReduceDone
    \/ SessionWindowStats
    \/ OptimalSessionWindow
    \/ Sessionize
    \/ SessionTime
    \/ PageHitsPerSession
    \/ TotalCustSession
    \/ TotalEngagement

Spec == Init /\ [][Next]_vars

\* ------------------------------------------- the window heuristic on its own

\* the reduced tally of a window with x[1] one-url sessions among x[2]
ShareTally(x) == <<x[1], x[2] - x[1], 0, 0, 0, 0, x[2]>>

\* 60, 55, 50, 52 and 48 percent one-url sessions at the windows 1..5
PercentScenario ==
    <<<<60, 100>>, <<55, 100>>, <<50, 100>>, <<52, 100>>, <<48, 100>>>>

\* the series the heuristic is run on: every series of at most MaxLen shares,
\* and the percentages above
SeriesInputs ==
    UNION {[1..n -> Shares] : n \in 0..MaxLen} \cup {PercentScenario}

InitSelector ==
    /\ pc = "reduced"
    /\ session_period \in Periods
    /\ d3 = <<>>
    /\ d4 = <<>>
    /\ d5 = <<>>
    /\ d6 = <<>>
    /\ parts = EmptyBag
    /\ \E shares \in SeriesInputs :
         lsess_window_stats = [w \in DOMAIN shares |-> ShareTally(shares[w])]
    /\ lpg_sess_stats = <<>>
    /\ lind = <<>>
    /\ session_window = session_period
    /\ d7 = <<>>
    /\ argv \in SUBSET {FlagCalculate}
    /\ NoMetrics

NextSelector ==
    \/ SessionWindowStats
    \/ OptimalSessionWindow

SpecSelector == InitSelector /\ [][NextSelector]_vars

\* ================================================================== claims

\* the lists of a session (cid, [lsess_durs, lsess_urls, lsess_ts])
Durs(sess) == sess[2][1]

Urls(sess) == sess[2][2]

Stamps(sess) == sess[2][3]

\* the urls, or the timestamps, of a list of sessions, one after the other
RECURSIVE AllUrls(_)
AllUrls(lsessions) ==
    IF lsessions = <<>> THEN <<>>
    ELSE Urls(Head(lsessions)) \o AllUrls(Tail(lsessions))

RECURSIVE AllStamps(_)
AllStamps(lsessions) ==
    IF lsessions = <<>> THEN <<>>
    ELSE Stamps(Head(lsessions)) \o AllStamps(Tail(lsessions))

\* the number of events of the first k sessions of a list
RECURSIVE EventsBefore(_, _)
EventsBefore(lsessions, k) ==
    IF k = 0 THEN 0
    ELSE Len(Urls(lsessions[k])) + EventsBefore(lsessions, k - 1)

\* the number of events of a customer's timeline
NumEvents(cid) == Len(d5[cid][1])

\* C1: the sessions getSessions returns for a customer, one after the other,
\* are the url/timestamp pairs of the customer's timeline, in its order, none
\* dropped and none twice.
C1_SessionsPartitionTimeline ==
    \A cid \in DOMAIN d7 :
        /\ \A k \in DOMAIN d7[cid] :
               Len(Urls(d7[cid][k])) = Len(Stamps(d7[cid][k]))
        /\ AllUrls(d7[cid]) = d5[cid][1]
        /\ AllStamps(d7[cid]) = d5[cid][2]

\* a customer with three events cut into a session of two and a session of one
C1_Witness ==
    /\ pc = "d7"
    /\ \E cid \in DOMAIN d7 :
         /\ NumEvents(cid) = 3
         /\ Len(d7[cid]) = 2
         /\ Len(Urls(d7[cid][1])) = 2
         /\ Len(Urls(d7[cid][2])) = 1

\* C2: for a timeline of N >= 1 events and any window, W <= 0 included,
\* getSessions returns at least 1 and at most N sessions, each with at least
\* one event.
C2_SessionCountBounds ==
    \A cid \in DOMAIN d7 :
        /\ Len(d7[cid]) >= 1
        /\ Len(d7[cid]) <= NumEvents(cid)
        /\ \A k \in DOMAIN d7[cid] : Len(Urls(d7[cid][k])) >= 1

\* C3: with a window W <= 0 a timeline of N events yields exactly N sessions,
\* the k-th holding exactly the k-th event.
C3_NonPositiveWindowOneEventSessions ==
    session_window <= 0 =>
        \A cid \in DOMAIN d7 :
            /\ Len(d7[cid]) = NumEvents(cid)
            /\ \A k \in DOMAIN d7[cid] :
                   /\ Urls(d7[cid][k]) = <<d5[cid][1][k]>>
                   /\ Stamps(d7[cid][k]) = <<d5[cid][2][k]>>

\* C4: in every session the first recorded gap is 0 and every other recorded
\* gap is strictly less than the window (W minutes).
C4_SessionGaps ==
    \A cid \in DOMAIN d7 : \A k \in DOMAIN d7[cid] :
        \A i \in DOMAIN Durs(d7[cid][k]) :
            /\ i = 1 => Durs(d7[cid][k])[i] = 0
            /\ i > 1 => Durs(d7[cid][k])[i] < session_window * SecsPerMin

\* a session that records a gap that is not 0, followed by a session whose
\* first event came a full window later
C4_Witness ==
    /\ pc = "d7"
    /\ session_window > 0
    /\ \E cid \in DOMAIN d7 :
         /\ Len(d7[cid]) = 2
         /\ Len(Durs(d7[cid][1])) = 2
         /\ Durs(d7[cid][1])[2] > 0
         /\ d5[cid][3][3] >= session_window * SecsPerMin
         /\ Durs(d7[cid][2]) = <<0>>

\* the positions of the timeline at which a later session starts
Boundaries(lsessions) ==
    {1 + EventsBefore(lsessions, k) : k \in 1..(Len(lsessions) - 1)}

\* C5: sessions are maximal: a session ends and the next one starts at a
\* position of the timeline if and only if the gap there is >= W; a gap
\* equal to W starts a new session.
C5_SessionsMaximal ==
    \A cid \in DOMAIN d7 :
        Boundaries(d7[cid]) =
            {i \in 1..NumEvents(cid) : d5[cid][3][i] >= session_window * SecsPerMin}

\* a new session at a gap equal to the window, after a smaller gap that is
\* not 0 and starts none
C5_Witness ==
    /\ pc = "d7"
    /\ session_window > 0
    /\ \E cid \in DOMAIN d7 :
         /\ 3 \in Boundaries(d7[cid])
         /\ d5[cid][3][3] = session_window * SecsPerMin
         /\ d5[cid][3][2] > 0
         /\ 2 \notin Boundaries(d7[cid])

\* the size bucket (1..6) of a session with n distinct urls: 6 is 6 or more
Bucket(n) == IF n >= 6 THEN 6 ELSE n

\* the 7-entry tally of a list of sessions
TallyOfSessions(lsessions) ==
    [j \in 1..7 |->
        IF j = 7 THEN Len(lsessions)
        ELSE Cardinality({k \in DOMAIN lsessions :
                            Bucket(LenSet(Urls(lsessions[k]))) = j})]

\* C6: for every customer and every window w of the sweep, the tally of
\* getSessionsURLHits for w is the tally of the sessions getSessions returns
\* with W = w: slot 7 their number, slots 1..5 and 6 those with exactly that
\* many, and with 6 or more, distinct urls.
C6_SweepAgreesWithGetSessions ==
    pc = "d6" =>
        \A cid \in DOMAIN d6 : \A w \in DOMAIN d6[cid] :
            d6[cid][w] = TallyOfSessions(getSessions(<<cid, d5[cid]>>, lperiods[w]))

\* a customer that has, at window 1, two sessions, one of them with two urls,
\* and at window 2 one session
C6_Witness ==
    /\ pc = "d6"
    /\ \E cid \in DOMAIN d6 :
         /\ d6[cid][1][7] = 2
         /\ d6[cid][1][2] = 1
         /\ d6[cid][1][1] = 1
         /\ d6[cid][2][7] = 1

\* C7: the sweep covers the windows 1..SESSION_WINDOW_MAX: getSessionsURLHits
\* returns SESSION_WINDOW_MAX tallies, the j-th (0-based) for window j + 1.
C7_SweepCoversMaxWindow ==
    pc = "d6" =>
        \A cid \in DOMAIN d6 :
            /\ Len(d6[cid]) = SESSION_WINDOW_MAX
            /\ \A j \in 0..(SESSION_WINDOW_MAX - 1) :
                   d6[cid][j + 1] =
                       TallyOfSessions(getSessions(<<cid, d5[cid]>>, j + 1))

\* the first six slots of every tally of a list sum to the seventh
SlotsSumToTotal(stats) ==
    \A w \in DOMAIN stats :
        stats[w][1] + stats[w][2] + stats[w][3] + stats[w][4] + stats[w][5]
            + stats[w][6] = stats[w][7]

\* C8: for every window, in every customer's tally and in the histogram
\* after any number of merges, slots 1..6 sum to slot 7.
C8_BucketsSumToTotal ==
    /\ \A cid \in DOMAIN d6 : SlotsSumToTotal(d6[cid])
    /\ \A a \in BagToSet(parts) : SlotsSumToTotal(a)
    /\ SlotsSumToTotal(lsess_window_stats)

\* the histogram of two customers after their merge: at window 1 a session
\* with one url and a session with two
C8_Witness ==
    /\ pc = "reduced"
    /\ Cardinality(DOMAIN d6) = 2
    /\ lsess_window_stats[1][7] = 2
    /\ lsess_window_stats[1][1] = 1
    /\ lsess_window_stats[1][2] = 1

\* the sum of slot j of window w over the customers cs
RECURSIVE SlotSum(_, _, _)
SlotSum(cs, w, j) ==
    IF cs = {} THEN 0
    ELSE LET c == CHOOSE x \in cs : TRUE
         IN  d6[c][w][j] + SlotSum(cs \ {c}, w, j)

\* C9: the reduced histogram does not depend on the order or the grouping of
\* the merges: whatever pairs the reduce merged, every slot is the sum of the
\* customers' slots.
C9_MergeOrderIndependent ==
    pc = "reduced" =>
        /\ Len(lsess_window_stats) = SESSION_WINDOW_MAX - 1
        /\ \A w \in DOMAIN lsess_window_stats :
               lsess_window_stats[w] = [j \in 1..7 |-> SlotSum(DOMAIN d6, w, j)]

\* the reduce of two customers with different tallies is done
C9_Witness ==
    /\ pc = "reduced"
    /\ \E c1 \in DOMAIN d6 : \E c2 \in DOMAIN d6 : d6[c1] # d6[c2]

\* exact comparison of two quotients <<numerator, denominator>>
QuotientLess(a, b) == a[1] * b[2] < b[1] * a[2]

\* the 0-based indices k with p[k + 1] > p[k]
Upticks(p) == {k \in 0..(Len(p) - 2) : QuotientLess(p[k + 1], p[k + 2])}

\* C10: getOptimalSessionWindow returns, in increasing order, the first
\* min(2, number of upticks) indices k with p[k + 1] > p[k] of the series p of
\* one-url percentages; equal neighbours are no uptick; the result is empty
\* if and only if there is no uptick.
C10_FirstTwoUpticks ==
    pc = "window" =>
        LET U == Upticks(lpg_sess_stats[0])
            m == Min(2, Cardinality(U))
        IN  /\ Len(lind) = m
            /\ \A i \in 1..m :
                   /\ lind[i] \in U
                   /\ Cardinality({u \in U : u < lind[i]}) = i - 1
            /\ (lind = <<>>) <=> (U = {})

\* a series with three upticks and a pair of equal neighbours
C10_Witness ==
    /\ pc = "window"
    /\ Cardinality(Upticks(lpg_sess_stats[0])) >= 3
    /\ \E k \in 1..(Len(lpg_sess_stats[0]) - 1) :
         /\ ~QuotientLess(lpg_sess_stats[0][k], lpg_sess_stats[0][k + 1])
         /\ ~QuotientLess(lpg_sess_stats[0][k + 1], lpg_sess_stats[0][k])
    /\ Len(lind) = 2

PercentTallies ==
    [w \in DOMAIN PercentScenario |-> ShareTally(PercentScenario[w])]

C12_FixedWindowUsed ==
    pc = "window" =>
        /\ FlagCalculate \notin argv => session_window = session_period
        /\ lind = <<>> => session_window = session_period

\* the list of gaps getPageDurations returned for a customer
Gaps(cid) == d5[cid][3]

\* C16: for every customer's sorted event list getPageDurations returns a
\* list of gaps as long as the event list, whose first gap is 0, whose gap i
\* is timestamp i minus timestamp i-1, and whose gaps are all non-negative;
\* one event alone gives the list [0].
C16_PageDurationGaps ==
    \A cid \in DOMAIN d5 :
        LET dat == d4[cid] IN
        /\ Len(Gaps(cid)) = Len(dat)
        /\ Len(d5[cid][1]) = Len(dat)
        /\ Len(d5[cid][2]) = Len(dat)
        /\ Gaps(cid)[1] = 0
        /\ \A i \in 2..Len(dat) : Gaps(cid)[i] = dat[i][1] - dat[i - 1][1]
        /\ \A i \in DOMAIN Gaps(cid) : Gaps(cid)[i] >= 0
        /\ Len(dat) = 1 => Gaps(cid) = <<0>>

\* a customer whose events were aggregated out of order and lie apart in
\* time, next to a customer with one event
C16_Witness ==
    /\ pc = "d5"
    /\ \E cid \in DOMAIN d5 :
         /\ Len(d3[cid]) = 2
         /\ d3[cid][1][1] > d3[cid][2][1]
         /\ Gaps(cid)[2] > 0
    /\ \E cid \in DOMAIN d5 : Len(d3[cid]) = 1 /\ Gaps(cid) = <<0>>

\* the number of different urls of each session of a customer, in order
UniqueCounts(cid) == [k \in DOMAIN d8b[cid] |-> d8b[cid][k][2]]

\* the sessions of the timeline A at 0, B at 5, C at 25 minutes, window 15
ScenarioSessions ==
    /\ Len(d7["ip1"]) = 2
    /\ Urls(d7["ip1"][1]) = <<"A", "B">>
    /\ Durs(d7["ip1"][1]) = <<0, 5 * SecsPerMin>>
    /\ Urls(d7["ip1"][2]) = <<"C">>
    /\ Durs(d7["ip1"][2]) = <<0>>

ScenarioSessionized ==
    /\ d3 = TimelineScenario
    /\ session_window = 15
    /\ pc \in {"d8b", "d10", "d14"}

\* C13: the timeline A at 0, B at 5, C at 25 minutes with window 15 gives
\* the 2 sessions [A (gap 0), B (gap 5)] and [C (gap 0)], and the numbers of
\* different urls of the two sessions are 1 and 1.
C13_ScenarioCounts11 ==
    ScenarioSessionized => ScenarioSessions /\ UniqueCounts("ip1") = <<1, 1>>

\* C13, amended: the same 2 sessions, and the numbers of different urls of
\* the two sessions are 2 and 1.
C13_ScenarioCounts21 ==
    ScenarioSessionized => ScenarioSessions /\ UniqueCounts("ip1") = <<2, 1>>

C13_Witness ==
    /\ ScenarioSessionized
    /\ pc = "d8b"
    /\ lind = <<>>
    /\ Len(d8b["ip1"]) = 2

\* the sessions of the final sessionization, over all customers
NumSessions == AccumulatedSessions(d7)

\* the sum of the durations of the sessions of the final sessionization
SumDurations ==
    sum([i \in 1..Len(ClientList) |->
           IF ClientList[i] \in DOMAIN d7
           THEN sum([k \in DOMAIN d7[ClientList[i]] |->
                       sum(Durs(d7[ClientList[i]][k]))])
           ELSE 0])

\* C14: when the run has finished, the accumulator of the number of
\* sessions is the number of sessions of the final sessionization and the
\* accumulator of the session time is the sum of their durations, however
\* often getSessionTime was evaluated for a session.
C14_CountersAtFinish ==
    pc = "d14" =>
        /\ TOTAL_SESSIONS_ACC = NumSessions
        /\ SUM_SESSION_TIME_ACC = SumDurations

\* the sum of the gaps of a customer's timeline that are shorter than W
\* minutes
RECURSIVE ShortGaps(_, _)
ShortGaps(gaps, W) ==
    IF gaps = <<>> THEN 0
    ELSE (IF Head(gaps) < W * SecsPerMin THEN Head(gaps) ELSE 0)
           + ShortGaps(Tail(gaps), W)

\* the time between a customer's first and last event
Span(cid) == d4[cid][Len(d4[cid])][1] - d4[cid][1][1]

\* C17: for a window W > 0 the total duration reported for a customer is
\* the sum of exactly the gaps of the customer's timeline that are shorter
\* than W, so it is at most the time between the customer's first and last
\* event, and a gap of W or more adds nothing.
C17_TotalIsSumOfShortGaps ==
    (pc \in {"d10", "d14"} /\ session_window > 0) =>
        \A cid \in DOMAIN d9 :
            /\ d9[cid] = ShortGaps(Gaps(cid), session_window)
            /\ d9[cid] <= Span(cid)

\* a customer whose first gap is as long as the window and whose second
\* session lasts half a minute
C17_Witness ==
    /\ pc = "d10"
    /\ session_window = 1
    /\ \E cid \in DOMAIN d9 :
         /\ Gaps(cid) = <<0, 90, 30>>
         /\ Len(d7[cid]) = 2
         /\ d8[cid][2][2] = 30
         /\ d9[cid] = 30

\* the lists with the elements of l in another order
Reorderings(l) ==
    {[i \in DOMAIN l |-> l[p[i]]] :
       p \in {q \in [DOMAIN l -> DOMAIN l] :
                \A i, j \in DOMAIN l : q[i] = q[j] => i = j}}

\* the aggregated lines of the same events, every customer's in some order
Reaggregated(agg) ==
    {alt \in [DOMAIN agg -> UNION {Reorderings(agg[cid]) : cid \in DOMAIN agg}] :
       \A cid \in DOMAIN agg : alt[cid] \in Reorderings(agg[cid])}

\* lines 510-512 on the aggregated lines agg
DurationsOf(agg) ==
    [cid \in DOMAIN agg |-> getPageDurations(<<cid, sorted(agg[cid])>>)[2]]

\* the sessions, the histograms and the engagement records of a run on the
\* aggregated lines agg with the window W
SessionsOf(agg, W) ==
    [cid \in DOMAIN agg |-> getSessions(<<cid, DurationsOf(agg)[cid]>>, W)]

HistogramsOf(agg) ==
    [cid \in DOMAIN agg |->
       getSessionsURLHits(<<cid, DurationsOf(agg)[cid]>>)[2]]

EngagementOf(agg, W) ==
    TotalEngagementRDD(PageHitsRDD(SessionsOf(agg, W)),
        TotalCustSessionRDD(SessionDurationRDD(SessionsOf(agg, W))))

\* C15: a run on the same events with the same window, whatever the order
\* in which the events of a customer were aggregated (events of one
\* timestamp included), has the same sessions with the same order of events
\* in them, the same histograms and the same engagement records.
C15_RunsAgree ==
    pc = "d14" =>
        \A alt \in Reaggregated(d3) :
            /\ SessionsOf(alt, session_window) = d7
            /\ HistogramsOf(alt) = d6
            /\ EngagementOf(alt, session_window) = d14

====
